---- MODULE Spec2Model ----
(***************************************************************************)
(* sk::value (include/sk/value.hxx): a type-erased scalar container.       *)
(*                                                                         *)
(* A value owns, through a std::unique_ptr, one heap-allocated holder      *)
(* value_instance<T>.  The model keeps the heap explicit: a value's        *)
(* `object` is an address (or the null pointer) and `heap` maps addresses  *)
(* to holders, so that sharing, leaking and dangling are expressible.      *)
(*                                                                         *)
(* Payloads are written as tuples of naturals (their object                *)
(* representation):                                                        *)
(*   nullptr_t   <<0>>                                                     *)
(*   int         <<n>>                                                     *)
(*   double      <<0, n>> for the finite number n, <<1, 0>> for a NaN      *)
(*   string      the character codes of a std::string                      *)
(*   blob        <<id>>: a user type with std::hash and operator== but     *)
(*               neither operator< nor operator<<                          *)
(*   cstr        a char const * argument: character codes, NUL-terminated  *)
(***************************************************************************)
EXTENDS Integers, Sequences, FiniteSets, TLC

VARIABLES vals, heap, given, typeRank, last, pc

vars == <<vals, heap, given, typeRank, last, pc>>

(* ------------------------------ bounds -------------------------------- *)

\* Number of sk::value objects the client code works with.
NumSlots == 2

\* int payloads are 1..MaxInt.
MaxInt == 2

Slots == 1 .. NumSlots

\* One more cell than values: an assignment allocates the new holder before
\* the old one is deleted.
Addrs == 1 .. (NumSlots + 1)

(* ------------------------- payloads and types ------------------------- *)

\* The null pointer held by a std::unique_ptr.
NULL == 0

Types == {"nullptr_t", "int", "double", "string", "blob"}

\* Types a non-empty value can hold: the ones typeid().before() is asked about.
RankedTypes == {"int", "double", "string", "blob"}

NaN == <<1, 0>>

Args(T) ==
    CASE T = "nullptr_t" -> {<<0>>}
      [] T = "int"       -> {<<n>> : n \in 1 .. MaxInt}
      [] T = "double"    -> {<<0, 1>>, <<0, 2>>, NaN}
      [] T = "string"    -> {<<102, 111>>, <<102, 111, 111>>}
      [] T = "blob"      -> {<<1>>, <<2>>}
      [] T = "cstr"      -> {<<102, 111, 111, 0>>}

ArgTypes == Types \cup {"cstr"}

\* Everything a value can be constructed from, assigned from or compared with.
AllArgs == UNION {{[type |-> T, x |-> x] : x \in Args(T)} : T \in ArgTypes}

\* What the state machine's constructors and assignments draw from.
StepArgs == {a \in AllArgs : a.type \in {"nullptr_t", "int", "cstr"}}

NoArg == [type |-> "none", x |-> <<>>]

(* --------------------- capabilities of the payload -------------------- *)

\* requires { o < o } -> bool
value_lt_comparable(T) == T \in {"int", "double", "string"}

\* requires { strm << o } -> std::ostream &
value_printable(T) == T \in {"nullptr_t", "int", "double", "string"}

RECURSIVE LexLess(_, _)
\* std::basic_string's operator<: lexicographic on the character codes.
LexLess(a, b) ==
    IF b = <<>> THEN FALSE
    ELSE IF a = <<>> THEN TRUE
    ELSE IF Head(a) /= Head(b) THEN Head(a) < Head(b)
    ELSE LexLess(Tail(a), Tail(b))

\* T's own operator== on two payloads.
PayloadEq(T, a, b) ==
    IF T = "double" THEN a /= NaN /\ b /= NaN /\ a = b ELSE a = b

\* T's own operator< on two payloads (T is value_lt_comparable).
PayloadLess(T, a, b) ==
    CASE T = "int"    -> a[1] < b[1]
      [] T = "double" -> a /= NaN /\ b /= NaN /\ a[2] < b[2]
      [] T = "string" -> LexLess(a, b)
      [] OTHER        -> FALSE

value_lt_compare(T, a, b) ==
    IF value_lt_comparable(T) THEN PayloadLess(T, a, b) ELSE FALSE

RECURSIVE Decimal(_)
\* operator<<(std::ostream &, int): the decimal digits, as character codes.
Decimal(n) ==
    IF n < 10 THEN <<48 + n>> ELSE Append(Decimal(n \div 10), 48 + (n % 10))

\* strm << v for a printable payload.
Printed(T, x) ==
    CASE T = "nullptr_t" -> <<110, 117, 108, 108, 112, 116, 114>>
      [] T = "int"       -> Decimal(x[1])
      [] T = "double"    -> IF x = NaN THEN <<110, 97, 110>> ELSE Decimal(x[2])
      [] OTHER           -> x

value_containable_to_string(T, x) ==
    IF value_printable(T) THEN Printed(T, x)
    ELSE <<60, 118, 97, 108, 117, 101, 62>>

RECURSIVE SumSeq(_)
SumSeq(s) == IF s = <<>> THEN 0 ELSE Head(s) + SumSeq(Tail(s))

\* std::hash<T>{}(x): a function of the payload alone that agrees on payloads
\* T's operator== calls equal; different payloads and types may collide.
StdHash(T, x) ==
    CASE T = "nullptr_t" -> 0
      [] T = "double"    -> IF x = NaN THEN 7 ELSE x[2]
      [] OTHER           -> SumSeq(x) % 256

(* ------------------------------ holders ------------------------------- *)

FreeCell == [type |-> "free", object |-> <<>>]

RECURSIVE UpToNul(_)
\* std::basic_string(char const *): the characters before the first NUL.
UpToNul(s) ==
    IF s = <<>> \/ Head(s) = 0 THEN <<>> ELSE <<Head(s)>> \o UpToNul(Tail(s))

\* std::make_unique<value_instance<remove_cvref_t<T>>>(v), and the
\* char const * overloads that store a std::string instead.
value_instance(arg) ==
    IF arg.type = "cstr"
    THEN [type |-> "string", object |-> UpToNul(arg.x)]
    ELSE [type |-> arg.type, object |-> arg.x]

\* value_instance<T>::copy
copy(h) == [type |-> h.type, object |-> h.object]

\* A hash that looks at the payload's type only.
hash_of_type(h) == Len(h.type)

\* value_instance<T>::hash
hash(h) == StdHash(h.type, h.object)

\* value_instance<T>::str
str(h) == value_containable_to_string(h.type, h.object)

\* value_instance<T>::eq: dynamic_cast<value_instance<T> const *>(other)
eq(h, other) ==
    IF other.type /= h.type THEN FALSE
    ELSE PayloadEq(h.type, h.object, other.object)

\* value_instance<T>::lt
lt(h, other) ==
    IF other.type /= h.type THEN FALSE
    ELSE value_lt_compare(h.type, h.object, other.object)

\* static value_instance<nullptr_t> null_value, in value::empty()
null_value == [type |-> "nullptr_t", object |-> <<0>>]

\* value::empty, on the holder `object` points to
empty(h) == eq(h, null_value)

\* No ranking of the types: nothing is before anything.
before_unranked(rank, h1, h2) == FALSE

\* typeid(*a.object).before(typeid(*b.object))
before(rank, h1, h2) == rank[h1.type] < rank[h2.type]

\* An empty left operand settles the comparison by itself.
value_eq_empty_first(a, b) ==
    IF empty(a) THEN TRUE ELSE eq(a, b)

\* operator==(value const &, value const &), on the two holders
value_eq(a, b) ==
    IF empty(a) \/ empty(b)
    THEN (IF empty(a) /\ empty(b) THEN TRUE ELSE FALSE)
    ELSE eq(a, b)

\* An empty left operand sorts first without looking at the right one.
value_less_empty_first(rank, a, b) ==
    IF empty(a) THEN TRUE
    ELSE IF empty(b) THEN FALSE
    ELSE IF a.type /= b.type THEN before(rank, a, b)
    ELSE lt(a, b)

\* operator<(value const &, value const &), on the two holders
value_less(rank, a, b) ==
    IF empty(a) THEN (IF empty(b) THEN FALSE ELSE TRUE)
    ELSE IF empty(b) THEN FALSE
    ELSE IF a.type /= b.type THEN before(rank, a, b)
    ELSE lt(a, b)

\* std::hash<sk::value>::operator()
value_hash(a) == hash(a)

\* A cast that lets int and double stand for each other.
value_cast_ptr_coercing(To, addr, h) ==
    IF empty(h) THEN NULL
    ELSE IF h.type = To \/ {h.type, To} = {"int", "double"} THEN addr ELSE NULL

\* value_cast<To>(value const *): the address of the holder whose payload
\* the returned pointer designates, or NULL.
value_cast_ptr(To, addr, h) ==
    IF empty(h) THEN NULL
    ELSE IF h.type = To THEN addr ELSE NULL

\* value_cast<To>(value const &): whether dynamic_cast to a reference throws
\* std::bad_cast.
value_cast_throws(To, h) == h.type /= To

\* A comparison with a raw payload that does not look at the held type.
value_eq_T_untyped(addr, h, T, b) ==
    IF empty(h) THEN FALSE ELSE PayloadEq(T, h.object, b)

\* operator==(value const &, T const &) for a value_containable T
value_eq_T(addr, h, T, b) ==
    LET p == value_cast_ptr(T, addr, h)
    IN  IF p = NULL THEN FALSE ELSE PayloadEq(T, h.object, b)

\* operator==(value const &, nullptr_t)
value_eq_nullptr(h) == empty(h)

\* operator==(value const &, char const *): a == std::string(b)
value_eq_cstr(addr, h, b) == value_eq_T(addr, h, "string", UpToNul(b))

\* v == x as overload resolution settles it: the non-template overloads for
\* nullptr and for a string literal, the template for every other payload.
value_eq_raw(addr, h, arg) ==
    CASE arg.type = "nullptr_t" -> value_eq_nullptr(h)
      [] arg.type = "cstr"      -> value_eq_cstr(addr, h, arg.x)
      [] OTHER                  -> value_eq_T(addr, h, arg.type, arg.x)

\* operator==(T const &, value const &), operator==(nullptr_t, value const &),
\* operator==(char const *, value const &): b == a
value_eq_raw_rev(arg, addr, h) == value_eq_raw(addr, h, arg)

(* ------------------------ the heap and unique_ptr --------------------- *)

HasFree(hp) == \E a \in Addrs : hp[a] = FreeCell

\* The allocator's choice: the lowest free cell.
NewAddr(hp) ==
    CHOOSE a \in Addrs :
        hp[a] = FreeCell /\ \A b \in Addrs : b < a => hp[b] /= FreeCell

\* std::make_unique<value_instance<T>>(...)
make_unique(hp, h) ==
    LET a == NewAddr(hp)
    IN  [heap |-> [hp EXCEPT ![a] = h], object |-> a]

\* std::default_delete on the pointer a unique_ptr gives up (no-op on null)
Delete(hp, a) == IF a = NULL THEN hp ELSE [hp EXCEPT ![a] = FreeCell]

\* value::value()
value_default(hp) == make_unique(hp, value_instance([type |-> "nullptr_t", x |-> <<0>>]))

\* value::value(T &&) and value::value(char const *)
value_from(hp, arg) == make_unique(hp, value_instance(arg))

\* A copy that shares the source's holder instead of copying it.
value_copy_shares(hp, other) == [heap |-> hp, object |-> other]

\* value::value(value const &other):
\*   object(other.object ? other.object->copy() : nullptr)
value_copy(hp, other) ==
    IF other /= NULL THEN make_unique(hp, copy(hp[other]))
    ELSE [heap |-> hp, object |-> NULL]

\* A move that leaves the source's pointer in place.
moved_from_keeps_pointer(other) == other

\* What std::move(other.object) leaves in other.object.
moved_from(other) == NULL

\* unique_ptr::operator=(unique_ptr &&): reset(u.release()); `old` is what
\* this held when reset runs, `p` the pointer taken over.
unique_ptr_reset(hp, old, p) == [heap |-> Delete(hp, old), object |-> p]

(* ---------------------------- the machine ----------------------------- *)

Absent == [alive |-> FALSE, object |-> NULL]

Op(op, dst, src, arg) ==
    [op |-> op, dst |-> dst, src |-> src, arg |-> arg, bres |-> FALSE, nres |-> 0]

Running == pc = "running"

\* sk::value v;
DefaultConstruct(i) ==
    /\ Running /\ ~vals[i].alive /\ HasFree(heap)
    /\ LET r == value_default(heap)
       IN  /\ heap' = r.heap
           /\ vals' = [vals EXCEPT ![i] = [alive |-> TRUE, object |-> r.object]]
    /\ given' = [given EXCEPT ![i] = [type |-> "nullptr_t", x |-> <<0>>]]
    /\ last' = Op("default", i, i, NoArg)
    /\ UNCHANGED <<typeRank, pc>>

\* sk::value v{x}; sk::value v{"literal"};
Construct(i, arg) ==
    /\ Running /\ ~vals[i].alive /\ HasFree(heap)
    /\ LET r == value_from(heap, arg)
       IN  /\ heap' = r.heap
           /\ vals' = [vals EXCEPT ![i] = [alive |-> TRUE, object |-> r.object]]
    /\ given' = [given EXCEPT ![i] = arg]
    /\ last' = Op("construct", i, i, arg)
    /\ UNCHANGED <<typeRank, pc>>

\* sk::value v{other};
CopyConstruct(i, j) ==
    /\ Running /\ ~vals[i].alive /\ vals[j].alive /\ HasFree(heap)
    /\ LET r == value_copy(heap, vals[j].object)
       IN  /\ heap' = r.heap
           /\ vals' = [vals EXCEPT ![i] = [alive |-> TRUE, object |-> r.object]]
    /\ given' = [given EXCEPT ![i] = given[j]]
    /\ last' = Op("copy_construct", i, j, NoArg)
    /\ UNCHANGED <<typeRank, pc>>

\* sk::value v{std::move(other)};
MoveConstruct(i, j) ==
    /\ Running /\ ~vals[i].alive /\ vals[j].alive
    /\ vals' = [vals EXCEPT ![i] = [alive |-> TRUE, object |-> vals[j].object],
                            ![j] = [alive |-> TRUE, object |-> moved_from(vals[j].object)]]
    /\ given' = [given EXCEPT ![i] = given[j], ![j] = NoArg]
    /\ last' = Op("move_construct", i, j, NoArg)
    /\ UNCHANGED <<heap, typeRank, pc>>

\* v = x; for a value_containable x: the new holder is made first, then the
\* unique_ptr takes it over and deletes the old one.
Assign(i, arg) ==
    /\ Running /\ vals[i].alive /\ HasFree(heap) /\ arg.type /= "cstr"
    /\ LET n == value_from(heap, arg)
           r == unique_ptr_reset(n.heap, vals[i].object, n.object)
       IN  /\ heap' = r.heap
           /\ vals' = [vals EXCEPT ![i].object = r.object]
    /\ given' = [given EXCEPT ![i] = arg]
    /\ last' = Op("assign", i, i, arg)
    /\ UNCHANGED <<typeRank, pc>>

\* v = "literal"; the body stores the string holder and then flows off the
\* end of a function declared to return value &: undefined behaviour.  The
\* build may keep or drop the store, and may return or trap.
AssignLiteral(i, arg) ==
    /\ Running /\ vals[i].alive /\ HasFree(heap) /\ arg.type = "cstr"
    /\ LET n == value_from(heap, arg)
           r == unique_ptr_reset(n.heap, vals[i].object, n.object)
       IN  \/ /\ heap' = r.heap
              /\ vals' = [vals EXCEPT ![i].object = r.object]
              /\ given' = [given EXCEPT ![i] = arg]
           \/ UNCHANGED <<heap, vals, given>>
    /\ pc' \in {"running", "crashed"}
    /\ last' = Op("assign_literal", i, i, arg)
    /\ UNCHANGED typeRank

\* v = other; (other may be v itself)
CopyAssign(i, j) ==
    /\ Running /\ vals[i].alive /\ vals[j].alive /\ HasFree(heap)
    /\ LET n == value_copy(heap, vals[j].object)
           r == unique_ptr_reset(n.heap, vals[i].object, n.object)
       IN  /\ heap' = r.heap
           /\ vals' = [vals EXCEPT ![i].object = r.object]
    /\ given' = [given EXCEPT ![i] = given[j]]
    /\ last' = Op("copy_assign", i, j, NoArg)
    /\ UNCHANGED <<typeRank, pc>>

\* v = std::move(other); (other may be v itself): reset(other.release())
MoveAssign(i, j) ==
    /\ Running /\ vals[i].alive /\ vals[j].alive
    /\ LET p == vals[j].object
           released == [vals EXCEPT ![j].object = moved_from(p)]
           r == unique_ptr_reset(heap, released[i].object, p)
       IN  /\ heap' = r.heap
           /\ vals' = [released EXCEPT ![i].object = r.object]
    /\ given' = [[given EXCEPT ![j] = NoArg] EXCEPT ![i] = given[j]]
    /\ last' = Op("move_assign", i, j, NoArg)
    /\ UNCHANGED <<typeRank, pc>>

\* ~value(): the unique_ptr deletes the holder it owns.
Destroy(i) ==
    /\ Running /\ vals[i].alive
    /\ heap' = Delete(heap, vals[i].object)
    /\ vals' = [vals EXCEPT ![i] = Absent]
    /\ given' = [given EXCEPT ![i] = NoArg]
    /\ last' = Op("destroy", i, i, NoArg)
    /\ UNCHANGED <<typeRank, pc>>

\* The ranking type_info::before() gives the holder types: fixed for a run,
\* chosen by the implementation.
Rankings ==
    {r \in [RankedTypes -> 1 .. Cardinality(RankedTypes)] :
        \A s, t \in RankedTypes : s /= t => r[s] /= r[t]}

SomeRanking == CHOOSE r \in Rankings : TRUE

\* The program before any value is constructed.  No action of this
\* specification reads typeRank.
Init ==
    /\ vals = [i \in Slots |-> Absent]
    /\ heap = [a \in Addrs |-> FreeCell]
    /\ given = [i \in Slots |-> NoArg]
    /\ typeRank = SomeRanking
    /\ last = Op("init", 0, 0, NoArg)
    /\ pc = "running"

Next ==
    \/ \E i \in Slots : DefaultConstruct(i)
    \/ \E i \in Slots, arg \in StepArgs : Construct(i, arg)
    \/ \E i, j \in Slots : CopyConstruct(i, j)
    \/ \E i, j \in Slots : MoveConstruct(i, j)
    \/ \E i \in Slots, arg \in StepArgs : Assign(i, arg)
    \/ \E i \in Slots, arg \in StepArgs : AssignLiteral(i, arg)
    \/ \E i, j \in Slots : CopyAssign(i, j)
    \/ \E i, j \in Slots : MoveAssign(i, j)
    \/ \E i \in Slots : Destroy(i)

Spec == Init /\ [][Next]_vars

(* ------------- the const operations, on values drawn by Init ---------- *)

\* A value that was moved from: object is null, no holder.
MovedFrom == NoArg

\* NumSlots values, each constructed from some argument or moved from; the
\* i-th holder allocated sits in cell i.
Drawn(c) ==
    /\ vals = [i \in Slots |->
                 [alive |-> TRUE, object |-> IF c[i] = MovedFrom THEN NULL ELSE i]]
    /\ heap = [a \in Addrs |->
                 IF a \in Slots /\ c[a] /= MovedFrom
                 THEN value_instance(c[a]) ELSE FreeCell]
    /\ given = c
    /\ last = Op("init", 0, 0, NoArg)
    /\ pc = "running"

Holder(i) == heap[vals[i].object]

Result(op, dst, src, arg, b, n) ==
    [op |-> op, dst |-> dst, src |-> src, arg |-> arg, bres |-> b, nres |-> n]

Target(To) == [type |-> To, x |-> <<>>]

\* Each behaviour applies one operation to the values drawn.
Fresh == Running /\ last.op = "init"

\* Calling through a null `object` is undefined: the call may trap, or
\* return anything.
Undefined(op, dst, src, arg) ==
    \/ /\ pc' = "crashed"
       /\ last' = Result(op, dst, src, arg, FALSE, 0)
    \/ /\ pc' = "running"
       /\ \E b \in BOOLEAN, n \in {0, 1} : last' = Result(op, dst, src, arg, b, n)

\* value_cast<To>(&v)
CastPtr(i, To) ==
    /\ Fresh /\ vals[i].alive
    /\ IF vals[i].object = NULL
       THEN Undefined("cast_ptr", i, i, Target(To))
       ELSE /\ last' = Result("cast_ptr", i, i, Target(To), FALSE,
                              value_cast_ptr(To, vals[i].object, Holder(i)))
            /\ pc' = pc
    /\ UNCHANGED <<vals, heap, given, typeRank>>

\* value_cast<To>(v): bres records that std::bad_cast was thrown, nres the
\* holder whose payload the reference designates.
CastRef(i, To) ==
    /\ Fresh /\ vals[i].alive
    /\ IF vals[i].object = NULL
       THEN Undefined("cast_ref", i, i, Target(To))
       ELSE /\ last' = IF value_cast_throws(To, Holder(i))
                       THEN Result("cast_ref", i, i, Target(To), TRUE, NULL)
                       ELSE Result("cast_ref", i, i, Target(To), FALSE, vals[i].object)
            /\ pc' = pc
    /\ UNCHANGED <<vals, heap, given, typeRank>>

\* a == b
Equal(i, j) ==
    /\ Fresh /\ vals[i].alive /\ vals[j].alive
    /\ IF vals[i].object = NULL \/ vals[j].object = NULL
       THEN Undefined("eq", i, j, NoArg)
       ELSE /\ last' = Result("eq", i, j, NoArg, value_eq(Holder(i), Holder(j)), 0)
            /\ pc' = pc
    /\ UNCHANGED <<vals, heap, given, typeRank>>

\* v == x
EqualRaw(i, arg) ==
    /\ Fresh /\ vals[i].alive
    /\ IF vals[i].object = NULL
       THEN Undefined("eq_raw", i, i, arg)
       ELSE /\ last' = Result("eq_raw", i, i, arg,
                              value_eq_raw(vals[i].object, Holder(i), arg), 0)
            /\ pc' = pc
    /\ UNCHANGED <<vals, heap, given, typeRank>>

\* x == v
EqualRawRev(arg, i) ==
    /\ Fresh /\ vals[i].alive
    /\ IF vals[i].object = NULL
       THEN Undefined("raw_eq", i, i, arg)
       ELSE /\ last' = Result("raw_eq", i, i, arg,
                              value_eq_raw_rev(arg, vals[i].object, Holder(i)), 0)
            /\ pc' = pc
    /\ UNCHANGED <<vals, heap, given, typeRank>>

\* std::hash<sk::value>{}(v)
Hash(i) ==
    /\ Fresh /\ vals[i].alive
    /\ IF vals[i].object = NULL
       THEN Undefined("hash", i, i, NoArg)
       ELSE /\ last' = Result("hash", i, i, NoArg, FALSE, value_hash(Holder(i)))
            /\ pc' = pc
    /\ UNCHANGED <<vals, heap, given, typeRank>>

InitCmp ==
    /\ \E c \in [Slots -> AllArgs \cup {MovedFrom}] : Drawn(c)
    /\ typeRank = SomeRanking

NextCmp ==
    \/ \E i \in Slots, To \in Types : CastPtr(i, To)
    \/ \E i \in Slots, To \in Types : CastRef(i, To)
    \/ \E i, j \in Slots : Equal(i, j)
    \/ \E i \in Slots, arg \in AllArgs : EqualRaw(i, arg)
    \/ \E i \in Slots, arg \in AllArgs : EqualRawRev(arg, i)
    \/ \E i \in Slots : Hash(i)

\* Casts, equality and hashing applied to drawn values.
SpecCmp == InitCmp /\ [][NextCmp]_vars

\* a < b; may be evaluated again and again.
Less(i, j) ==
    /\ Running /\ vals[i].alive /\ vals[j].alive
    /\ IF vals[i].object = NULL \/ vals[j].object = NULL
       THEN Undefined("less", i, j, NoArg)
       ELSE /\ last' = Result("less", i, j, NoArg,
                              value_less(typeRank, Holder(i), Holder(j)), 0)
            /\ pc' = pc
    /\ UNCHANGED <<vals, heap, given, typeRank>>

Payloads == {a \in AllArgs : a.type \in Types}

InitOrd ==
    /\ \E c \in [Slots -> Payloads \cup {MovedFrom}] : Drawn(c)
    /\ typeRank \in Rankings

NextOrd == \E i, j \in Slots : Less(i, j)

\* operator< applied to drawn values, under every ranking of the types.
SpecOrd == InitOrd /\ [][NextOrd]_vars

(* ------------------------------ claims -------------------------------- *)

Valid(i) == vals[i].alive /\ vals[i].object /= NULL

\* The type and the payload a value made from `arg` is to hold.
ExpectedType(arg) == IF arg.type = "cstr" THEN "string" ELSE arg.type

ExpectedPayload(arg) ==
    IF arg.type = "cstr" THEN SubSeq(arg.x, 1, Len(arg.x) - 1) ELSE arg.x

Owned(a) == {k \in Slots : vals[k].alive /\ vals[k].object = a}

\* C1 as stated: every value object that exists owns a non-absent erased
\* container; there is no container-less state.
C1_AlwaysOwnsContainer ==
    \A k \in Slots :
        vals[k].alive => vals[k].object /= NULL /\ heap[vals[k].object] /= FreeCell

\* C1 amended: a value that exists is container-less exactly when it was
\* moved from (or copied or moved from such a value) and not assigned since;
\* otherwise it owns, alone, a live holder of the payload it was given, which
\* is the empty sentinel or a payload of a concrete type T; no holder is
\* leaked.
C1_OwnsContainerUnlessMovedFrom ==
    /\ \A k \in Slots :
          vals[k].alive =>
             IF given[k] = MovedFrom
             THEN vals[k].object = NULL
             ELSE /\ vals[k].object \in Addrs
                  /\ Owned(vals[k].object) = {k}
                  /\ heap[vals[k].object].type = ExpectedType(given[k])
                  /\ heap[vals[k].object].object = ExpectedPayload(given[k])
                  /\ heap[vals[k].object].type \in Types
                  /\ empty(heap[vals[k].object])
                        <=> heap[vals[k].object].type = "nullptr_t"
    /\ \A a \in Addrs : heap[a] /= FreeCell => Owned(a) /= {}

\* C1 witness: a move assignment has left its source container-less and
\* its target with the holder.
C1_Witness ==
    /\ last.op = "move_assign" /\ last.dst /= last.src
    /\ vals[last.src].alive /\ vals[last.src].object = NULL
    /\ Valid(last.dst) /\ ~empty(Holder(last.dst))

\* What can be seen of a value: the type, the payload, the emptiness and the
\* display string of its holder; <<>> for a value without a holder.
Observed(vs, hp, k) ==
    IF ~vs[k].alive \/ vs[k].object = NULL THEN <<>>
    ELSE LET h == hp[vs[k].object]
         IN  <<h.type, h.object, <<empty(h)>>, str(h)>>

Copies == {"copy_construct", "copy_assign"}

Moves == {"move_construct", "move_assign"}

\* The values the step just taken may write: its target, and the source of
\* a move.
Written(l) == {l.dst} \cup (IF l.op \in Moves THEN {l.src} ELSE {})

\* C8: a copy gives the target a holder of its own with the source's type
\* and payload and leaves the source as it was; and no step changes what can
\* be seen of a value it does not write: assigning to, moving from or
\* destroying one value leaves every other value's type, payload, emptiness
\* and display string unchanged.
C8_CopyIndependent ==
    [][ /\ (last'.op \in Copies /\ vals[last'.src].object /= NULL) =>
             /\ vals'[last'.dst].object /= NULL
             /\ heap'[vals'[last'.dst].object].type = heap[vals[last'.src].object].type
             /\ heap'[vals'[last'.dst].object].object = heap[vals[last'.src].object].object
             /\ Observed(vals', heap', last'.src) = Observed(vals, heap, last'.src)
             /\ last'.dst /= last'.src =>
                   /\ vals'[last'.src] = vals[last'.src]
                   /\ vals'[last'.dst].object /= vals'[last'.src].object
        /\ \A k \in Slots \ Written(last') :
             Observed(vals', heap', k) = Observed(vals, heap, k)
      ]_vars

\* C8 witness: after b = a, the two values hold equal payloads in two holders.
C8_Witness ==
    /\ last.op = "copy_assign" /\ last.dst /= last.src
    /\ Valid(last.dst) /\ Valid(last.src)
    /\ vals[last.dst].object /= vals[last.src].object
    /\ Holder(last.dst) = Holder(last.src)
    /\ ~empty(Holder(last.dst))

\* C9, the string-literal case: after v = "literal" the program goes on and v
\* holds a std::string with the literal's characters.
C9_LiteralAssignStoresString ==
    last.op = "assign_literal" =>
        /\ pc = "running"
        /\ Valid(last.dst)
        /\ Holder(last.dst).type = "string"
        /\ Holder(last.dst).object = ExpectedPayload(last.arg)

\* Whether a holder holds the empty sentinel, read off its type.
HeldEmpty(h) == h.type = "nullptr_t"

HeldNaN(h) == h.type = "double" /\ h.object = NaN

\* C2 as stated: a == a is true for every value, a == b equals b == a, two
\* empty values are equal and an empty value equals no non-empty one.
C2_EqReflexiveSymmetric ==
    (last.op = "eq" /\ Running /\ Valid(last.dst) /\ Valid(last.src)) =>
        LET a == Holder(last.dst)
            b == Holder(last.src)
        IN  /\ last.dst = last.src => last.bres
            /\ last.bres = value_eq(b, a)
            /\ (HeldEmpty(a) /\ HeldEmpty(b)) => last.bres
            /\ (HeldEmpty(a) /= HeldEmpty(b)) => ~last.bres

\* C2 amended: a == b equals b == a for all values, two empty values are
\* equal, an empty value equals no non-empty one, and a == a is true for
\* every value whose payload its type's own == calls equal to itself (every
\* payload but a floating-point NaN).
C2_EqSymmetricReflexiveUnlessNaN ==
    (last.op = "eq" /\ Running /\ Valid(last.dst) /\ Valid(last.src)) =>
        LET a == Holder(last.dst)
            b == Holder(last.src)
        IN  /\ (last.dst = last.src /\ ~HeldNaN(a)) => last.bres
            /\ (last.dst = last.src /\ HeldNaN(a)) => ~last.bres
            /\ last.bres = value_eq(b, a)
            /\ (HeldEmpty(a) /\ HeldEmpty(b)) => last.bres
            /\ (HeldEmpty(a) /= HeldEmpty(b)) => ~last.bres

\* C2 witness: two different values, neither empty, compared and found equal.
C2_Witness ==
    /\ last.op = "eq" /\ Running /\ last.dst /= last.src
    /\ Valid(last.dst) /\ Valid(last.src)
    /\ ~HeldEmpty(Holder(last.dst)) /\ last.bres

\* C5: the hash of a value is std::hash<T> of the payload it was made from,
\* and every value equal to it (two empties included) has the same hash.
C5_HashOfPayload ==
    (last.op = "hash" /\ Running /\ Valid(last.dst)) =>
        /\ last.nres = StdHash(ExpectedType(given[last.dst]),
                               ExpectedPayload(given[last.dst]))
        /\ \A j \in Slots :
              (Valid(j) /\ value_eq(Holder(last.dst), Holder(j))) =>
                  value_hash(Holder(j)) = last.nres

\* C5 witness: a hashed value that another, separately made value equals.
C5_Witness ==
    /\ last.op = "hash" /\ Running /\ Valid(last.dst)
    /\ \E j \in Slots \ {last.dst} :
          Valid(j) /\ value_eq(Holder(last.dst), Holder(j))
    /\ last.nres /= 0

\* C6: value_cast<To>(&v) is null when v is empty or holds a type other than
\* To; otherwise it points into v's own holder, whose payload is the one v
\* was made from; and the cast changes neither v nor any holder.
C6_CastPtr ==
    /\ [](  (last.op = "cast_ptr" /\ Running /\ Valid(last.dst)) =>
              LET h == Holder(last.dst)
                  To == last.arg.type
              IN  IF HeldEmpty(h) \/ h.type /= To
                  THEN last.nres = NULL
                  ELSE /\ last.nres = vals[last.dst].object
                       /\ heap[last.nres].type = To
                       /\ heap[last.nres].object = ExpectedPayload(given[last.dst]) )
    /\ [][ last'.op = "cast_ptr" => UNCHANGED <<vals, heap>> ]_vars

\* C6 witness: a value made from a string literal, recovered as std::string.
C6_Witness ==
    /\ last.op = "cast_ptr" /\ Running /\ Valid(last.dst)
    /\ given[last.dst].type = "cstr" /\ last.arg.type = "string"
    /\ last.nres /= NULL
    /\ heap[last.nres].object = <<102, 111, 111>>

\* C7 as stated: value_cast<To>(v) throws exactly when v is empty or holds a
\* type other than To, for every storable To; when it does not throw, the
\* reference designates v's own payload.
C7_CastRefThrows ==
    (last.op = "cast_ref" /\ Running /\ Valid(last.dst)) =>
        LET h == Holder(last.dst)
            To == last.arg.type
        IN  /\ last.bres <=> (HeldEmpty(h) \/ h.type /= To)
            /\ ~last.bres => last.nres = vals[last.dst].object

\* C10 as stated: v == x and x == v are true exactly when v is non-empty,
\* holds exactly x's type and a payload equal to x; two non-empty values of
\* different types are unequal.
C10_EqRawExactType ==
    /\ (last.op \in {"eq_raw", "raw_eq"} /\ Running /\ Valid(last.dst)) =>
          LET h == Holder(last.dst)
              T == ExpectedType(last.arg)
          IN  last.bres <=>
                 /\ ~HeldEmpty(h)
                 /\ h.type = T
                 /\ PayloadEq(T, h.object, ExpectedPayload(last.arg))
    /\ (  /\ last.op = "eq" /\ Running /\ Valid(last.dst) /\ Valid(last.src)
          /\ ~HeldEmpty(Holder(last.dst)) /\ ~HeldEmpty(Holder(last.src))
          /\ Holder(last.dst).type /= Holder(last.src).type  ) => ~last.bres

\* C10 amended: for a raw payload x of a storable type T other than the
\* null sentinel type, v == x and x == v are true exactly when v is
\* non-empty, holds exactly T and a payload equal to x; v == nullptr and
\* nullptr == v are true exactly when v is empty; two non-empty values of
\* different types are unequal.
C10_EqRawExactTypeOrNull ==
    /\ (last.op \in {"eq_raw", "raw_eq"} /\ Running /\ Valid(last.dst)) =>
          LET h == Holder(last.dst)
              T == ExpectedType(last.arg)
          IN  IF T = "nullptr_t"
              THEN last.bres <=> HeldEmpty(h)
              ELSE last.bres <=>
                     /\ ~HeldEmpty(h)
                     /\ h.type = T
                     /\ PayloadEq(T, h.object, ExpectedPayload(last.arg))
    /\ (  /\ last.op = "eq" /\ Running /\ Valid(last.dst) /\ Valid(last.src)
          /\ ~HeldEmpty(Holder(last.dst)) /\ ~HeldEmpty(Holder(last.src))
          /\ Holder(last.dst).type /= Holder(last.src).type  ) => ~last.bres

\* C10 witness: an int compared with the double of the same number, found
\* unequal.
C10_Witness ==
    /\ last.op = "raw_eq" /\ Running /\ Valid(last.dst)
    /\ Holder(last.dst) = [type |-> "int", object |-> <<1>>]
    /\ last.arg = [type |-> "double", x |-> <<0, 1>>]
    /\ ~last.bres

\* T's own less-than on two payloads of type T, or FALSE when T has none.
OwnLess(T, x, y) ==
    CASE T = "int"    -> x[1] < y[1]
      [] T = "double" -> x /= NaN /\ y /= NaN /\ x[2] < y[2]
      [] T = "string" -> LexLess(x, y)
      [] OTHER        -> FALSE

\* C3: a < b is FALSE for two empties, TRUE for an empty a and a non-empty b,
\* FALSE for a non-empty a and an empty b; for two non-empty values of
\* different types it is the ranking of the two types, so exactly one of
\* a < b and b < a is TRUE; for the same type T it is T's own less-than, or
\* FALSE when T has none; and evaluating a < b again gives the same result.
C3_LessCaseTable ==
    /\ [](  (last.op = "less" /\ Running /\ Valid(last.dst) /\ Valid(last.src)) =>
              LET a == Holder(last.dst)
                  b == Holder(last.src)
              IN  CASE HeldEmpty(a) /\ HeldEmpty(b)   -> ~last.bres
                    [] HeldEmpty(a) /\ ~HeldEmpty(b)  -> last.bres
                    [] ~HeldEmpty(a) /\ HeldEmpty(b)  -> ~last.bres
                    [] OTHER ->
                         IF a.type /= b.type
                         THEN /\ last.bres <=> typeRank[a.type] < typeRank[b.type]
                              /\ last.bres /= value_less(typeRank, b, a)
                         ELSE last.bres <=> OwnLess(a.type, a.object, b.object) )
    /\ [][ (  /\ last.op = "less" /\ last'.op = "less"
              /\ last'.dst = last.dst /\ last'.src = last.src
              /\ Running /\ pc' = "running"
              /\ Valid(last.dst) /\ Valid(last.src)  ) =>
             last'.bres = last.bres ]_vars

\* C3 witness: an int compared with a std::string, and found less.
C3_Witness ==
    /\ last.op = "less" /\ Running /\ Valid(last.dst) /\ Valid(last.src)
    /\ Holder(last.dst).type = "int" /\ Holder(last.src).type = "string"
    /\ last.bres

\* The holders whose payload type's less-than is a strict weak ordering on
\* them, or absent: every payload but a NaN.
Ordered == {value_instance(a) : a \in {p \in Payloads : p.x /= NaN}}

Incomparable(a, b) ==
    ~value_less(typeRank, a, b) /\ ~value_less(typeRank, b, a)

\* C4: on values whose payload types' less-than is a strict weak ordering or
\* absent, operator< is irreflexive, asymmetric and transitive,
\* incomparability is transitive, and equal values are incomparable.
C4_StrictWeakOrder ==
    (  /\ last.op = "less" /\ Running /\ Valid(last.dst) /\ Valid(last.src)
       /\ Holder(last.dst) \in Ordered /\ Holder(last.src) \in Ordered  ) =>
        LET a == Holder(last.dst)
            b == Holder(last.src)
        IN  /\ last.dst = last.src => ~last.bres
            /\ a = b => ~last.bres
            /\ last.bres => ~value_less(typeRank, b, a)
            /\ last.bres =>
                  \A c \in Ordered :
                     value_less(typeRank, b, c) => value_less(typeRank, a, c)
            /\ (~last.bres /\ ~value_less(typeRank, b, a)) =>
                  \A c \in Ordered :
                     Incomparable(b, c) => Incomparable(a, c)
            /\ value_eq(a, b) => (~last.bres /\ ~value_less(typeRank, b, a))

\* C4 witness: a < b holds for two values of different types, and some
\* value of a third type lies above b.
C4_Witness ==
    /\ last.op = "less" /\ Running /\ Valid(last.dst) /\ Valid(last.src)
    /\ Holder(last.dst) \in Ordered /\ Holder(last.src) \in Ordered
    /\ Holder(last.dst).type /= Holder(last.src).type
    /\ last.bres
    /\ \E c \in Ordered :
          /\ c.type \notin {Holder(last.dst).type, Holder(last.src).type}
          /\ value_less(typeRank, Holder(last.src), c)

====
